---- MODULE Spec2Model ----
(***************************************************************************)
(* Model of wordle-cli: the session driver run() of src/main.rs, the       *)
(* terminal session ui::main / run_app of src/ui.rs and the evaluator      *)
(* get_spots.  A Rust String is a sequence of one-character strings.       *)
(***************************************************************************)
EXTENDS Integers, Sequences, FiniteSets, TLC

VARIABLES
    pc,                 \* position of the process inside run() / ui::main / run_app
    stored_index,       \* Data.index as the data file holds it
    data_index,         \* data.index in the memory of run()
    raw_mode,           \* terminal raw mode is enabled
    input,              \* App.input
    message,            \* App.message ("None" or the rejection text)
    guesses,            \* App.guesses
    alphabet_statuses,  \* App.alphabet_statuses, indexed 0..25
    attempts,           \* App.attempts
    word,               \* App.word
    allowed_guesses,    \* App.allowed_guesses
    index,              \* App.index
    win,                \* local `win` of run_app
    res,                \* result of run_app held by ui::main
    ui_result,          \* result returned by ui::main
    run_result,         \* result returned by run()
    clipboard,          \* lines of the text in the system clipboard (<<>>: never written)
    last,               \* what the last iteration of the loop got: a key event or a failure
    eval_input,         \* argument `input` of a stand-alone get_spots call
    eval_word,          \* argument `word` of a stand-alone get_spots call
    eval_spots          \* what that call returned (<<>> before the call)

vars == <<pc, stored_index, data_index, raw_mode, input, message, guesses,
          alphabet_statuses, attempts, word, allowed_guesses, index, win, res,
          ui_result, run_result, clipboard, last, eval_input, eval_word, eval_spots>>

appVars == <<input, message, guesses, alphabet_statuses, attempts, word,
             allowed_guesses, index, win>>

evalVars == <<eval_input, eval_word, eval_spots>>

-----------------------------------------------------------------------------
(* Bounds of the model *)

\* the loop stops accepting characters at this buffer length (the code has no limit)
MaxInput == 6

\* largest session index the data file holds at start
MaxIndex == 2

-----------------------------------------------------------------------------
(* Characters *)

ALPHABETS ==
    <<"A", "B", "C", "D", "E", "F", "G", "H", "I", "J", "K", "L", "M",
      "N", "O", "P", "Q", "R", "S", "T", "U", "V", "W", "X", "Y", "Z">>

LowerCase ==
    <<"a", "b", "c", "d", "e", "f", "g", "h", "i", "j", "k", "l", "m",
      "n", "o", "p", "q", "r", "s", "t", "u", "v", "w", "x", "y", "z">>

IsLower(c) == \E i \in 1..26 : LowerCase[i] = c

IsUpper(c) == \E i \in 1..26 : ALPHABETS[i] = c

\* char::to_ascii_uppercase
to_ascii_uppercase(c) ==
    IF IsLower(c) THEN ALPHABETS[CHOOSE i \in 1..26 : LowerCase[i] = c] ELSE c

\* str::to_ascii_uppercase
str_to_ascii_uppercase(s) == [i \in 1..Len(s) |-> to_ascii_uppercase(s[i])]

\* char::is_alphabetic on the ASCII characters of the model
is_alphabetic(c) == IsLower(c) \/ IsUpper(c)

\* fn letter_to_index; the Option is a set: {} is None, {i} is Some(i)
letter_to_index(letter) ==
    IF is_alphabetic(letter)
    THEN {(CHOOSE i \in 1..26 : ALPHABETS[i] = to_ascii_uppercase(letter)) - 1}
    ELSE {}

\* Option<usize>::unwrap_or_default
unwrap_or_default(o) == IF o = {} THEN 0 ELSE CHOOSE i \in o : TRUE

-----------------------------------------------------------------------------
(* Spots and the evaluator *)

\* impl Default for Spot; "NUL" stands for the character '\0'
SpotDefault == [letter |-> "NUL", status |-> "NotInWord"]

SpotCorrect(letter) == [letter |-> letter, status |-> "Correct"]

SpotIncorrect(letter) == [letter |-> letter, status |-> "Incorrect"]

SpotNotInWord(letter) == [letter |-> letter, status |-> "NotInWord"]

\* str::contains(|c| c == letter)
Contains(w, letter) == \E j \in 1..Len(w) : w[j] = letter

\* get_spots with the containment test made before the position test
get_spots_ContainsFirst(inp, w) ==
    [i \in 1..5 |->
        IF i <= Len(inp)
        THEN IF Contains(w, inp[i]) THEN SpotIncorrect(inp[i])
             ELSE IF inp[i] = w[i] THEN SpotCorrect(inp[i])
             ELSE SpotNotInWord(inp[i])
        ELSE SpotDefault]

\* get_spots that marks a misplaced letter only at its first occurrence in the input
get_spots_FirstOccurrence(inp, w) ==
    [i \in 1..5 |->
        IF i <= Len(inp)
        THEN IF inp[i] = w[i] THEN SpotCorrect(inp[i])
             ELSE IF Contains(w, inp[i]) /\ ~\E j \in 1..(i - 1) : inp[j] = inp[i]
                  THEN SpotIncorrect(inp[i])
             ELSE SpotNotInWord(inp[i])
        ELSE SpotDefault]

\* get_spots whose loop stops one position early
get_spots_SkipsLast(inp, w) ==
    [i \in 1..5 |->
        IF i <= Len(inp) - 1
        THEN IF inp[i] = w[i] THEN SpotCorrect(inp[i])
             ELSE IF Contains(w, inp[i]) THEN SpotIncorrect(inp[i])
             ELSE SpotNotInWord(inp[i])
        ELSE SpotDefault]

\* fn get_spots: positions past the end of the input keep the default Spot
get_spots(inp, w) ==
    [i \in 1..5 |->
        IF i <= Len(inp)
        THEN IF inp[i] = w[i] THEN SpotCorrect(inp[i])
             ELSE IF Contains(w, inp[i]) THEN SpotIncorrect(inp[i])
             ELSE SpotNotInWord(inp[i])
        ELSE SpotDefault]

\* the loop `for spot in spots { app.alphabet_statuses[..] = Some(spot.status) }`
RECURSIVE MergeSpots(_, _, _)
MergeSpots(st, spots, i) ==
    IF i > Len(spots) THEN st
    ELSE MergeSpots(
            [st EXCEPT ![unwrap_or_default(letter_to_index(spots[i].letter))] =
                            spots[i].status],
            spots, i + 1)

\* fn emoji_from_status
emoji_from_status(status) ==
    CASE status = "Correct" -> "green"
      [] status = "Incorrect" -> "yellow"
      [] status = "NotInWord" -> "black"

\* fn result_text_spans: the header line, then one line of glyphs per guess
result_text_spans(idx, att, gs) ==
    << <<"Wordle ", idx + 1, " ", att, "/6">> >> \o
    [k \in 1..Len(gs) |-> [i \in 1..5 |-> emoji_from_status(gs[k][i].status)]]

\* the clipboard text with an empty line after every line of los
RECURSIVE CopyText_BlankAfterEach(_)
CopyText_BlankAfterEach(los) ==
    IF los = <<>> THEN <<>>
    ELSE <<Head(los), <<>>>> \o CopyText_BlankAfterEach(Tail(los))

\* the text run_app builds for the clipboard: every line of los, and an
\* empty line after the first
CopyText(los) == <<los[1], <<>>>> \o SubSeq(los, 2, Len(los))

-----------------------------------------------------------------------------
(* The data files *)

\* the word list (data/words.json or the file of --words); entries may be lower-case
WordsFile == << <<"c", "c", "c", "c", "a">>, <<"A", "A", "A", "A", "A">> >>

\* the allowed guesses (data/allowed_guesses.json or the file of --allowed-guesses)
AllowedGuessesFile == { <<"a", "c", "c", "c", "c">> }

\* characters a key event of the model can carry
Keys == {"a", "c", "C"}

\* key codes other than Char
OtherCodes == {"Enter", "Backspace", "Esc", "Tab"}

\* KeyEvent.code: KeyCode::Char(ch) or one of the other codes
KeyOfChar(c) == [code |-> "Char", ch |-> c]

Key(code) == [code |-> code, ch |-> "NUL"]

KeyEvents == {KeyOfChar(c) : c \in Keys} \cup {Key(code) : code \in OtherCodes}

NoKey == Key("None")

\* letters of the stand-alone evaluator calls
EvalLetters == {"A", "B", "C"}

EvalWords == [1..5 -> EvalLetters]

Range(s) == {s[i] : i \in 1..Len(s)}

NoStatuses == [i \in 0..25 |-> "None"]

\* the test of ui.rs 91 without its attempts part
IsOver_WinOnly(att, w) == w

\* ui.rs 91: `app.attempts == 6 || win`, the game is over
IsOver(att, w) == att = 6 \/ w

\* the draw closure with the loss test made first
ScreenOf_LossFirst(att, w) ==
    IF att = 6 THEN "loss_ui"
    ELSE IF w THEN "success_ui"
    ELSE "game_ui"

\* ui.rs 81-87: the screen the draw closure paints
ScreenOf(att, w) ==
    IF w THEN "success_ui"
    ELSE IF att = 6 THEN "loss_ui"
    ELSE "game_ui"

\* the test of ui.rs 111 without its allow-list part
InvalidGuess_LengthOnly(inp, allowed) == Len(inp) # 5

\* ui.rs 111: the test that rejects a submitted input
InvalidGuess(inp, allowed) == Len(inp) # 5 \/ inp \notin allowed

RejectionMessage == "Not a valid five letter word. Try again... "

Won == ScreenOf(attempts, win) = "success_ui"

Lost == ScreenOf(attempts, win) = "loss_ui"

InProgress == ScreenOf(attempts, win) = "game_ui"

Terminal == Won \/ Lost

-----------------------------------------------------------------------------
(* Initial states *)

\* App::new with nothing to play yet
AppIdle ==
    /\ input = <<>>
    /\ message = "None"
    /\ guesses = <<>>
    /\ alphabet_statuses = NoStatuses
    /\ attempts = 0
    /\ word = <<>>
    /\ allowed_guesses = {}
    /\ index = 0
    /\ win = FALSE

SessionIdle ==
    /\ raw_mode = FALSE
    /\ res = "None"
    /\ ui_result = "None"
    /\ run_result = "None"
    /\ clipboard = <<>>
    /\ last = NoKey
    /\ AppIdle

EvalIdle ==
    /\ eval_input = <<>>
    /\ eval_word = <<>>
    /\ eval_spots = <<>>

\* run() has loaded the data file and found no command-line argument
Init ==
    /\ pc = "run"
    /\ stored_index \in 0..MaxIndex
    /\ data_index = stored_index
    /\ SessionIdle
    /\ EvalIdle

-----------------------------------------------------------------------------
(* run(), up to the call of ui::main *)

\* the allow-list without the word list added to it
BuildAllowed_NoExtend(file, words) == {str_to_ascii_uppercase(w) : w \in file}

\* main.rs 221-233: the allow-list source, extended by the word list, in upper case
BuildAllowed(file, words) == {str_to_ascii_uppercase(w) : w \in file \cup Range(words)}

\* main.rs 210-235: pick the word, build the allow-list
RunLoad ==
    /\ pc = "run"
    /\ IF data_index + 1 > Len(WordsFile)
       THEN /\ pc' = "exit"
            /\ run_result' = "Err"
            /\ UNCHANGED <<word, allowed_guesses, index>>
       ELSE /\ pc' = "enable_raw_mode"
            /\ word' = str_to_ascii_uppercase(WordsFile[data_index + 1])
            /\ allowed_guesses' = BuildAllowed(AllowedGuessesFile, WordsFile)
            /\ index' = data_index
            /\ UNCHANGED run_result
    /\ UNCHANGED <<stored_index, data_index, raw_mode, input, message, guesses,
                   alphabet_statuses, attempts, win, res, ui_result, clipboard, last>>
    /\ UNCHANGED evalVars

-----------------------------------------------------------------------------
(* ui::main, set-up *)

\* ui.rs 53: enable_raw_mode()?
EnableRawMode(ok) ==
    /\ pc = "enable_raw_mode"
    /\ IF ok
       THEN /\ raw_mode' = TRUE
            /\ pc' = "setup_terminal"
            /\ UNCHANGED ui_result
       ELSE /\ ui_result' = "Err"
            /\ pc' = "ui_returned"
            /\ UNCHANGED raw_mode
    /\ UNCHANGED <<stored_index, data_index, res, run_result, clipboard, last>>
    /\ UNCHANGED appVars
    /\ UNCHANGED evalVars

\* ui.rs 54-58: execute!(EnterAlternateScreen, ..)?, Terminal::new(..)?, autoresize()?
SetupTerminal(ok) ==
    /\ pc = "setup_terminal"
    /\ IF ok
       THEN /\ pc' = "run_app"
            /\ UNCHANGED ui_result
       ELSE /\ ui_result' = "Err"
            /\ pc' = "ui_returned"
    /\ UNCHANGED <<stored_index, data_index, raw_mode, res, run_result, clipboard, last>>
    /\ UNCHANGED appVars
    /\ UNCHANGED evalVars

\* ui.rs 61-62, 77-78: App::new, win = false, terminal.show_cursor()?
RunAppStart(ok) ==
    /\ pc = "run_app"
    /\ input' = <<>>
    /\ message' = "None"
    /\ guesses' = <<>>
    /\ alphabet_statuses' = NoStatuses
    /\ attempts' = 0
    /\ win' = FALSE
    /\ IF ok
       THEN /\ pc' = "loop"
            /\ UNCHANGED res
       ELSE /\ res' = "Err"
            /\ pc' = "restore"
    /\ UNCHANGED <<stored_index, data_index, raw_mode, word, allowed_guesses, index,
                   ui_result, run_result, clipboard, last>>
    /\ UNCHANGED evalVars

-----------------------------------------------------------------------------
(* run_app: one action per way an iteration of the loop can go *)

\* ui.rs 80-88: terminal.draw(..)? fails
DrawFails ==
    /\ pc = "loop"
    /\ res' = "Err"
    /\ pc' = "restore"
    /\ last' = Key("DrawError")
    /\ UNCHANGED <<stored_index, data_index, raw_mode, ui_result, run_result, clipboard>>
    /\ UNCHANGED appVars
    /\ UNCHANGED evalVars

\* ui.rs 90: event::read()? fails
ReadFails ==
    /\ pc = "loop"
    /\ res' = "Err"
    /\ pc' = "restore"
    /\ last' = Key("ReadError")
    /\ UNCHANGED <<stored_index, data_index, raw_mode, ui_result, run_result, clipboard>>
    /\ UNCHANGED appVars
    /\ UNCHANGED evalVars

\* a finished game that only Copy and Quit end: every other key is ignored
TerminalKey_OnlyQuitEnds(key, clip) ==
    /\ pc = "loop"
    /\ IsOver(attempts, win)
    /\ IF key.code = "Char" /\ key.ch = "c"
       THEN /\ pc' = "restore"
            /\ IF clip = "Ok"
               THEN /\ clipboard' = CopyText(result_text_spans(index, attempts, guesses))
                    /\ res' = "Ok"
               ELSE /\ res' = "Err"
                    /\ UNCHANGED clipboard
       ELSE /\ IF key.code = "Esc"
               THEN pc' = "restore" /\ res' = "Ok"
               ELSE UNCHANGED <<pc, res>>
            /\ UNCHANGED clipboard
    /\ last' = key
    /\ UNCHANGED <<stored_index, data_index, raw_mode, ui_result, run_result>>
    /\ UNCHANGED appVars
    /\ UNCHANGED evalVars

\* ui.rs 91-108: a key event when `app.attempts == 6 || win`.
\* clip is how the clipboard behaves: "Ok", "NewFails" (Clipboard::new()?)
\* or "SetFails" (set_text(..)?)
TerminalKey(key, clip) ==
    /\ pc = "loop"
    /\ IsOver(attempts, win)
    /\ IF key.code = "Char" /\ key.ch = "c"
       THEN IF clip = "Ok"
            THEN /\ clipboard' = CopyText(result_text_spans(index, attempts, guesses))
                 /\ res' = "Ok"
            ELSE /\ res' = "Err"
                 /\ UNCHANGED clipboard
       ELSE /\ res' = "Ok"
            /\ UNCHANGED clipboard
    /\ pc' = "restore"
    /\ last' = key
    /\ UNCHANGED <<stored_index, data_index, raw_mode, ui_result, run_result>>
    /\ UNCHANGED appVars
    /\ UNCHANGED evalVars

\* KeyCode::Enter without the `app.input.clear()` of ui.rs 133
KeyEnter_KeepsInput ==
    /\ pc = "loop"
    /\ ~IsOver(attempts, win)
    /\ last' = Key("Enter")
    /\ IF InvalidGuess(input, allowed_guesses)
       THEN /\ message' = RejectionMessage
            /\ UNCHANGED <<input, guesses, alphabet_statuses, attempts, win>>
       ELSE LET spots == get_spots(input, word) IN
            /\ message' = "None"
            /\ guesses' = Append(guesses, spots)
            /\ attempts' = attempts + 1
            /\ IF input = word
               THEN /\ win' = TRUE
                    /\ UNCHANGED <<alphabet_statuses, input>>
               ELSE /\ alphabet_statuses' = MergeSpots(alphabet_statuses, spots, 1)
                    /\ UNCHANGED <<input, win>>
    /\ UNCHANGED <<pc, stored_index, data_index, raw_mode, word, allowed_guesses, index,
                   res, ui_result, run_result, clipboard>>
    /\ UNCHANGED evalVars

\* ui.rs 110-134: KeyCode::Enter while the game is in progress
KeyEnter ==
    /\ pc = "loop"
    /\ ~IsOver(attempts, win)
    /\ last' = Key("Enter")
    /\ IF InvalidGuess(input, allowed_guesses)
       THEN /\ message' = RejectionMessage
            /\ UNCHANGED <<input, guesses, alphabet_statuses, attempts, win>>
       ELSE LET spots == get_spots(input, word) IN
            /\ message' = "None"
            /\ guesses' = Append(guesses, spots)
            /\ attempts' = attempts + 1
            /\ IF input = word
               THEN /\ win' = TRUE
                    /\ UNCHANGED <<alphabet_statuses, input>>
               ELSE /\ alphabet_statuses' = MergeSpots(alphabet_statuses, spots, 1)
                    /\ input' = <<>>
                    /\ UNCHANGED win
    /\ UNCHANGED <<pc, stored_index, data_index, raw_mode, word, allowed_guesses, index,
                   res, ui_result, run_result, clipboard>>
    /\ UNCHANGED evalVars

\* KeyCode::Char(c) that also takes the rejection message away
KeyChar_ClearsMessage(c) ==
    /\ pc = "loop"
    /\ ~IsOver(attempts, win)
    /\ Len(input) < MaxInput
    /\ input' = Append(input, to_ascii_uppercase(c))
    /\ message' = "None"
    /\ last' = KeyOfChar(c)
    /\ UNCHANGED <<pc, stored_index, data_index, raw_mode, guesses,
                   alphabet_statuses, attempts, word, allowed_guesses, index, win,
                   res, ui_result, run_result, clipboard>>
    /\ UNCHANGED evalVars

\* ui.rs 135-137: KeyCode::Char(c) while the game is in progress
KeyChar(c) ==
    /\ pc = "loop"
    /\ ~IsOver(attempts, win)
    /\ Len(input) < MaxInput
    /\ input' = Append(input, to_ascii_uppercase(c))
    /\ last' = KeyOfChar(c)
    /\ UNCHANGED <<pc, stored_index, data_index, raw_mode, message, guesses,
                   alphabet_statuses, attempts, word, allowed_guesses, index, win,
                   res, ui_result, run_result, clipboard>>
    /\ UNCHANGED evalVars

\* KeyCode::Backspace that clears the buffer instead of popping one character
KeyBackspace_ClearsAll ==
    /\ pc = "loop"
    /\ ~IsOver(attempts, win)
    /\ input' = <<>>
    /\ last' = Key("Backspace")
    /\ UNCHANGED <<pc, stored_index, data_index, raw_mode, message, guesses,
                   alphabet_statuses, attempts, word, allowed_guesses, index, win,
                   res, ui_result, run_result, clipboard>>
    /\ UNCHANGED evalVars

\* ui.rs 138-140: KeyCode::Backspace while the game is in progress (String::pop)
KeyBackspace ==
    /\ pc = "loop"
    /\ ~IsOver(attempts, win)
    /\ input' = IF input = <<>> THEN <<>> ELSE SubSeq(input, 1, Len(input) - 1)
    /\ last' = Key("Backspace")
    /\ UNCHANGED <<pc, stored_index, data_index, raw_mode, message, guesses,
                   alphabet_statuses, attempts, word, allowed_guesses, index, win,
                   res, ui_result, run_result, clipboard>>
    /\ UNCHANGED evalVars

\* ui.rs 141: KeyCode::Esc while the game is in progress
KeyEsc ==
    /\ pc = "loop"
    /\ ~IsOver(attempts, win)
    /\ res' = "Ok"
    /\ pc' = "restore"
    /\ last' = Key("Esc")
    /\ UNCHANGED <<stored_index, data_index, raw_mode, ui_result, run_result, clipboard>>
    /\ UNCHANGED appVars
    /\ UNCHANGED evalVars

\* ui.rs 142: any other key code while the game is in progress
KeyOther ==
    /\ pc = "loop"
    /\ ~IsOver(attempts, win)
    /\ last' = Key("Tab")
    /\ UNCHANGED <<pc, stored_index, data_index, raw_mode, res, ui_result, run_result,
                   clipboard>>
    /\ UNCHANGED appVars
    /\ UNCHANGED evalVars

-----------------------------------------------------------------------------
(* ui::main, restoration *)

\* ui.rs 65: disable_raw_mode()?
DisableRawMode(ok) ==
    /\ pc = "restore"
    /\ IF ok
       THEN /\ raw_mode' = FALSE
            /\ pc' = "leave_screen"
            /\ UNCHANGED ui_result
       ELSE /\ ui_result' = "Err"
            /\ pc' = "ui_returned"
            /\ UNCHANGED raw_mode
    /\ UNCHANGED <<stored_index, data_index, res, run_result, clipboard, last>>
    /\ UNCHANGED appVars
    /\ UNCHANGED evalVars

\* ui.rs 66-73: execute!(LeaveAlternateScreen, ..)?, show_cursor()?, then `res`
LeaveScreen(ok) ==
    /\ pc = "leave_screen"
    /\ ui_result' = IF ok THEN res ELSE "Err"
    /\ pc' = "ui_returned"
    /\ UNCHANGED <<stored_index, data_index, raw_mode, res, run_result, clipboard, last>>
    /\ UNCHANGED appVars
    /\ UNCHANGED evalVars

-----------------------------------------------------------------------------
(* run(), after ui::main *)

\* run() that advances and saves the index before it looks at the result of ui::main
RunFinish_AlwaysAdvances(saved) ==
    /\ pc = "ui_returned"
    /\ pc' = "exit"
    /\ data_index' = data_index + 1
    /\ IF saved
       THEN /\ stored_index' = data_index + 1
            /\ run_result' = ui_result
       ELSE /\ stored_index' \in {stored_index, 0}
            /\ run_result' = "Err"
    /\ UNCHANGED <<raw_mode, res, ui_result, clipboard, last>>
    /\ UNCHANGED appVars
    /\ UNCHANGED evalVars

\* main.rs 235-240: `?` on the result of ui::main, data.index += 1,
\* update_or_create_data(data, data_path)?.  A save that fails leaves the file
\* as it was (it could not be opened) or truncated (the next run then falls
\* back to Data::default(), whose index is 0).
RunFinish(saved) ==
    /\ pc = "ui_returned"
    /\ pc' = "exit"
    /\ IF ui_result = "Err"
       THEN /\ run_result' = "Err"
            /\ UNCHANGED <<data_index, stored_index>>
       ELSE /\ data_index' = data_index + 1
            /\ IF saved
               THEN /\ stored_index' = data_index + 1
                    /\ run_result' = "Ok"
               ELSE /\ stored_index' \in {stored_index, 0}
                    /\ run_result' = "Err"
    /\ UNCHANGED <<raw_mode, res, ui_result, clipboard, last>>
    /\ UNCHANGED appVars
    /\ UNCHANGED evalVars

-----------------------------------------------------------------------------
(* The session *)

Next ==
    \/ RunLoad
    \/ \E ok \in BOOLEAN : EnableRawMode(ok)
    \/ \E ok \in BOOLEAN : SetupTerminal(ok)
    \/ \E ok \in BOOLEAN : RunAppStart(ok)
    \/ DrawFails
    \/ ReadFails
    \/ \E key \in KeyEvents, clip \in {"Ok", "NewFails", "SetFails"} : TerminalKey(key, clip)
    \/ KeyEnter
    \/ \E c \in Keys : KeyChar(c)
    \/ KeyBackspace
    \/ KeyEsc
    \/ KeyOther
    \/ \E ok \in BOOLEAN : DisableRawMode(ok)
    \/ \E ok \in BOOLEAN : LeaveScreen(ok)
    \/ \E saved \in BOOLEAN : RunFinish(saved)

Spec == Init /\ [][Next]_vars

-----------------------------------------------------------------------------
(* Stand-alone calls of the evaluator *)

EvalInit ==
    /\ pc = "eval"
    /\ stored_index = 0
    /\ data_index = 0
    /\ SessionIdle
    /\ eval_input \in EvalWords
    /\ eval_word \in EvalWords
    /\ eval_spots = <<>>

\* get_spots(&input, &word)
Evaluate ==
    /\ pc = "eval"
    /\ eval_spots = <<>>
    /\ eval_spots' = get_spots(eval_input, eval_word)
    /\ UNCHANGED <<pc, stored_index, data_index, raw_mode, res, ui_result, run_result,
                   clipboard, last, eval_input, eval_word>>
    /\ UNCHANGED appVars

EvalNext == Evaluate

EvalSpec == EvalInit /\ [][EvalNext]_vars

-----------------------------------------------------------------------------
(* Properties of the evaluator, checked under EvalSpec *)

\* C1: for every 5-letter guess and secret and every position i, the Spot
\* get_spots produces at i is Correct if and only if guess[i] = secret[i].
C1_CorrectIffMatch ==
    eval_spots # <<>> =>
        \A i \in 1..5 :
            (eval_spots[i].status = "Correct") <=> (eval_input[i] = eval_word[i])

\* an evaluated guess with a matching and a non-matching position
C1_Witness ==
    /\ eval_spots # <<>>
    /\ \E i \in 1..5 : eval_input[i] = eval_word[i] /\ eval_spots[i].status = "Correct"
    /\ \E j \in 1..5 : eval_input[j] # eval_word[j] /\ eval_spots[j].status # "Correct"

\* C2: at every non-matching position the Spot is Incorrect when the letter
\* occurs anywhere in the secret and NotInWord otherwise, however often the
\* letter occurs in the guess or the secret; every Spot carries guess[i].
C2_MisplacedOrAbsent ==
    eval_spots # <<>> =>
        \A i \in 1..5 :
            /\ eval_spots[i].letter = eval_input[i]
            /\ eval_input[i] # eval_word[i] =>
                  eval_spots[i].status =
                      IF \E j \in 1..5 : eval_word[j] = eval_input[i]
                      THEN "Incorrect" ELSE "NotInWord"

\* a letter that occurs once in the secret and is Incorrect at two
\* non-matching positions of the guess, next to a letter that is NotInWord
C2_Witness ==
    /\ eval_spots # <<>>
    /\ \E i \in 1..5, j \in 1..5 :
          /\ i < j
          /\ eval_input[i] = eval_input[j]
          /\ Cardinality({k \in 1..5 : eval_word[k] = eval_input[i]}) = 1
          /\ eval_input[i] # eval_word[i]
          /\ eval_input[j] # eval_word[j]
          /\ eval_spots[i].status = "Incorrect"
          /\ eval_spots[j].status = "Incorrect"
    /\ \E k \in 1..5 : eval_spots[k].status = "NotInWord"

-----------------------------------------------------------------------------
(* Properties of the session, checked under Spec *)

\* the ranks of the order Correct > Incorrect > NotInWord > unknown
StatusRank(st) ==
    CASE st = "Correct" -> 3
      [] st = "Incorrect" -> 2
      [] st = "NotInWord" -> 1
      [] OTHER -> 0

\* C3: after an accepted Submit in InProgress the game is Won iff the input
\* equals the secret, with attempts the number of accepted guesses; Lost iff
\* the input differs from the secret and the history now has length 6;
\* InProgress otherwise; Won and Lost never hold together.
C3_SubmitOutcome ==
    [][ ( /\ pc = "loop"
          /\ last' = Key("Enter")
          /\ InProgress
          /\ Len(input) = 5
          /\ input \in allowed_guesses )
        => /\ Won' <=> (input = word)
           /\ attempts' = attempts + 1
           /\ attempts' = Len(guesses')
           /\ Lost' <=> (input # word /\ Len(guesses') = 6)
           /\ InProgress' <=> (~Won' /\ ~Lost')
           /\ ~(Won' /\ Lost') ]_vars

\* the sixth accepted guess equals the secret: the game is Won
C3_Witness ==
    /\ pc = "loop"
    /\ last = Key("Enter")
    /\ Won
    /\ attempts = 6
    /\ Len(guesses) = 6

\* C4: attempts is at most 6 and equals the length of the history; the history
\* only grows by appending one Guess at its end; once the game is Won or Lost
\* nothing adds a Guess or changes attempts.
C4_AttemptsAndHistory ==
    /\ [](attempts <= 6 /\ attempts = Len(guesses))
    /\ [][ /\ Len(guesses') \in {Len(guesses), Len(guesses) + 1}
           /\ SubSeq(guesses', 1, Len(guesses)) = guesses
           /\ Terminal => (guesses' = guesses /\ attempts' = attempts) ]_vars

\* a Submit pressed after the game was won in fewer than 6 attempts
C4_Witness ==
    /\ pc = "restore"
    /\ last = Key("Enter")
    /\ res = "Ok"
    /\ Won
    /\ attempts = Len(guesses)
    /\ attempts < 6

\* C5: a Submit in InProgress whose input has a length other than 5 or is not
\* in the allow-list sets the rejection message and leaves the history,
\* attempts, the alphabet summary, the input buffer and the status unchanged.
C5_RejectedSubmit ==
    [][ ( /\ pc = "loop"
          /\ last' = Key("Enter")
          /\ InProgress
          /\ (Len(input) # 5 \/ input \notin allowed_guesses) )
        => /\ message' = RejectionMessage
           /\ UNCHANGED <<guesses, attempts, alphabet_statuses, input>>
           /\ InProgress' ]_vars

\* a rejected five-letter word outside the allow-list, after an accepted guess
C5_Witness ==
    /\ pc = "loop"
    /\ last = Key("Enter")
    /\ message = RejectionMessage
    /\ Len(input) = 5
    /\ input \notin allowed_guesses
    /\ Len(guesses) >= 1

\* C6: TypeChar appends only when the buffer holds fewer than 5 characters, so
\* the input buffer holds between 0 and 5 characters in every reachable state.
C6_InputAtMostFive == Len(input) <= 5

\* C7: a letter's summary status never moves down the order
\* Correct > Incorrect > NotInWord > unknown.
C7_SummaryNeverDowngrades ==
    [][ \A i \in 0..25 :
            StatusRank(alphabet_statuses'[i]) >= StatusRank(alphabet_statuses[i]) ]_vars

\* C8 as claimed: when the game is Won or Lost, TypeChar, Backspace and Submit
\* change nothing and the session keeps waiting for input.
C8_TerminalKeysKeepWaiting ==
    [][ ( /\ pc = "loop"
          /\ Terminal
          /\ last' \in {KeyOfChar("a"), Key("Backspace"), Key("Enter")} )
        => /\ UNCHANGED appVars
           /\ pc' = "loop" ]_vars

\* C8 amended: when the game is Won or Lost, every key event leaves the game
\* state unchanged and ends the session; the loop returns success for every
\* key other than 'c' and writes nothing to the clipboard for it.
C8_TerminalKeysEndSession ==
    [][ ( /\ pc = "loop"
          /\ Terminal
          /\ last'.code \in {"Char"} \cup OtherCodes )
        => /\ UNCHANGED appVars
           /\ pc' = "restore"
           /\ last' # KeyOfChar("c") => (res' = "Ok" /\ clipboard' = clipboard) ]_vars

\* a seventh Submit after six non-matching guesses has ended the session
C8_Witness ==
    /\ pc = "restore"
    /\ last = Key("Enter")
    /\ res = "Ok"
    /\ Lost
    /\ Len(guesses) = 6

\* C9: a session ended by Quit does not advance the persisted index: the index
\* stored after the run equals the index stored before it.
C9_QuitKeepsIndex ==
    (pc = "exit" /\ last = Key("Esc")) => stored_index = index

\* C10: on every path on which ui::main returns, raw mode has been disabled
\* again before the return.
C10_RawModeRestored ==
    pc \in {"ui_returned", "exit"} => raw_mode = FALSE

\* C11 as claimed: a clipboard failure during Copy does not make the session
\* return a propagated failure.
C11_ClipboardFailureNotFatal ==
    (pc = "restore" /\ last = KeyOfChar("c")) => res = "Ok"

\* C12: the copied result summary is the header "Wordle <index+1> <attempts>/6",
\* one blank line, then one row per Guess in guess order, each row with 5
\* glyphs: green for Correct, yellow for Incorrect, black for NotInWord.
C12_ResultSummary ==
    clipboard # <<>> =>
        /\ Terminal
        /\ Len(clipboard) = attempts + 2
        /\ clipboard[1] = <<"Wordle ", index + 1, " ", attempts, "/6">>
        /\ clipboard[2] = <<>>
        /\ \A k \in 1..Len(guesses) :
              /\ Len(clipboard[k + 2]) = 5
              /\ \A i \in 1..5 :
                    clipboard[k + 2][i] =
                        CASE guesses[k][i].status = "Correct" -> "green"
                          [] guesses[k][i].status = "Incorrect" -> "yellow"
                          [] guesses[k][i].status = "NotInWord" -> "black"

\* the summary of a game won with the first guess has been copied
C12_Witness ==
    /\ clipboard # <<>>
    /\ Won
    /\ attempts = 1
    /\ Len(clipboard) = 3

\* C13: the uppercase secret word is a member of the uppercase allow-list
\* passed to the core, so a Submit of the secret word in InProgress is never
\* rejected, also when the allow-list file does not contain it and when the
\* lists are lower-case.
C13_SecretIsAllowed ==
    /\ [](pc \notin {"run", "exit", "eval"} => word \in allowed_guesses)
    /\ [][ ( /\ pc = "loop"
             /\ last' = Key("Enter")
             /\ InProgress
             /\ input = word )
           => /\ message' = "None"
              /\ guesses' # guesses
              /\ Won' ]_vars

\* the secret was submitted and accepted although the allow-list file does
\* not hold it and the word list holds it in lower case
C13_Witness ==
    /\ pc = "loop"
    /\ last = Key("Enter")
    /\ Won
    /\ \A w \in AllowedGuessesFile : str_to_ascii_uppercase(w) # word
    /\ word \notin Range(WordsFile)

\* the best status a Spot of the history gives the letter with index i
\* ("None" when no Spot carries the letter)
BestStatus(i) ==
    LET spots == {guesses[k][p] : k \in 1..Len(guesses), p \in 1..5}
        carried == {s.status : s \in {t \in spots : t.letter = ALPHABETS[i + 1]}}
    IN IF "Correct" \in carried THEN "Correct"
       ELSE IF "Incorrect" \in carried THEN "Incorrect"
       ELSE IF "NotInWord" \in carried THEN "NotInWord"
       ELSE "None"

\* C14 as claimed: in every state of the loop each letter's summary status is
\* the best status any Spot carrying the letter has in the history, and
\* unknown exactly when no Guess contains the letter.
C14_SummaryIsBestStatus ==
    pc = "loop" => \A i \in 0..25 : alphabet_statuses[i] = BestStatus(i)

GuessOf(w) ==
    [i \in 1..5 |->
        [letter |-> w[i],
         status |-> IF w[i] = word[i] THEN "Correct"
                    ELSE IF \E j \in 1..Len(word) : word[j] = w[i] THEN "Incorrect"
                    ELSE "NotInWord"]]

\* C16: an accepted Submit clears the rejection message, appends exactly one
\* Guess, the evaluation of the input against the secret, and raises attempts
\* by 1; every Guess of the history is the evaluation of a 5-letter
\* allow-listed word whose letters are the Spots' letters in order, and no
\* placeholder Spot is in the history.
C16_AcceptedSubmitAppendsEvaluation ==
    /\ [][ ( /\ pc = "loop"
             /\ last' = Key("Enter")
             /\ InProgress
             /\ Len(input) = 5
             /\ input \in allowed_guesses )
           => /\ message' = "None"
              /\ guesses' = Append(guesses, GuessOf(input))
              /\ attempts' = attempts + 1 ]_vars
    /\ [](\A k \in 1..Len(guesses) :
             LET w == [i \in 1..5 |-> guesses[k][i].letter] IN
             /\ w \in allowed_guesses
             /\ guesses[k] = GuessOf(w)
             /\ \A i \in 1..5 : guesses[k][i].letter # "NUL")

\* two different words were accepted one after the other and no message is set
C16_Witness ==
    /\ pc = "loop"
    /\ last = Key("Enter")
    /\ message = "None"
    /\ Len(guesses) >= 2
    /\ guesses[1] # guesses[2]
    /\ InProgress

\* C17 as claimed: in Won or Lost a key event carrying the letter C, in either
\* case, performs Copy and writes the result summary to the clipboard (when
\* the clipboard can be written); the clipboard is never written while the
\* game is InProgress.
C17_EitherCaseCopies ==
    /\ (pc = "restore" /\ Terminal /\ last \in {KeyOfChar("c"), KeyOfChar("C")}
            /\ res = "Ok")
          => clipboard # <<>>
    /\ InProgress => clipboard = <<>>

\* C18: Backspace in InProgress removes exactly the last character of a
\* non-empty input buffer and does nothing on an empty one; TypeChar and
\* Backspace change nothing but the input buffer.
C18_EditingOnlyTouchesInput ==
    [][ /\ ( /\ pc = "loop"
             /\ InProgress
             /\ last' = Key("Backspace") )
           => /\ input' = IF Len(input) = 0 THEN <<>>
                          ELSE [i \in 1..(Len(input) - 1) |-> input[i]]
              /\ UNCHANGED <<guesses, attempts, alphabet_statuses, message, win, pc>>
        /\ ( /\ pc = "loop"
             /\ InProgress
             /\ last'.code = "Char" )
           => /\ Len(input') = Len(input) + 1
              /\ \A i \in 1..Len(input) : input'[i] = input[i]
              /\ UNCHANGED <<guesses, attempts, alphabet_statuses, message, win, pc>> ]_vars

\* Backspace has taken one character off a rejected six-character input
C18_Witness ==
    /\ pc = "loop"
    /\ last = Key("Backspace")
    /\ Len(input) = 5
    /\ message = RejectionMessage
    /\ Len(guesses) >= 1

\* C19 as claimed: the persisted index is increased by exactly 1 if and only
\* if ui::main returns success, and is left unchanged whenever it returns a
\* propagated failure.
C19_IndexAdvancesIffSuccess ==
    (pc = "exit" /\ ui_result # "None") =>
        /\ (stored_index = index + 1) <=> (ui_result = "Ok")
        /\ ui_result = "Err" => stored_index = index

\* C19 amended: the persisted index is increased by exactly 1 if and only if
\* ui::main returns success and the save of the data file that follows
\* succeeds; whenever ui::main returns a propagated failure the persisted
\* index is left unchanged, also when the game was already Won or Lost.
C19_IndexAdvancesIffSuccessAndSaved ==
    (pc = "exit" /\ ui_result # "None") =>
        /\ (stored_index = index + 1) <=> (ui_result = "Ok" /\ run_result = "Ok")
        /\ ui_result = "Err" => (stored_index = index /\ run_result = "Err")

\* a game that was Won ended in a clipboard failure and the index stayed
C19_Witness ==
    /\ pc = "exit"
    /\ Won
    /\ last = KeyOfChar("c")
    /\ ui_result = "Err"
    /\ stored_index = index

\* C20: the rejection message is set exactly when the most recent Submit of
\* the session was rejected: it is unset at the start, set by a rejected
\* Submit, cleared by an accepted Submit and changed by nothing else, so
\* TypeChar and Backspace neither set nor clear it.
C20_MessageFollowsLastSubmit ==
    /\ [](pc \in {"run", "enable_raw_mode", "setup_terminal", "run_app"}
              => message = "None")
    /\ [][ IF pc = "loop" /\ InProgress /\ last' = Key("Enter")
           THEN message' = IF Len(input) = 5 /\ input \in allowed_guesses
                           THEN "None" ELSE RejectionMessage
           ELSE message' = message ]_vars
    /\ [](Terminal => message = "None")

\* the message of a rejected Submit is still set while the player types
C20_Witness ==
    /\ pc = "loop"
    /\ message = RejectionMessage
    /\ last = KeyOfChar("a")
    /\ Len(input) = 2

====
